---- MODULE Spec2Model ----
(***************************************************************************)
(* The file relationship graph store of fileorganizer (graph_store.py):    *)
(* FileGraphStore over the two SQLite tables graph_nodes and graph_edges,  *)
(* and FileGraphIntegration, which fills the graph from the file index.    *)
(*                                                                         *)
(* A table is the set of its rows; a row is a record of its columns.       *)
(* Python's None and SQL NULL are the string "None" for text values, the   *)
(* handle NoPk for a missing primary key, and the empty sequence for an    *)
(* optional argument or an empty fetchone().                               *)
(***************************************************************************)
EXTENDS Integers, Sequences, FiniteSets, TLC

VARIABLES
    graph_nodes,        \* rows of table graph_nodes
    graph_edges,        \* rows of table graph_edges
    sqlite_sequence,    \* AUTOINCREMENT counters of the two tables
    files,              \* rows of table files (the file index)
    file_relationships, \* rows of table file_relationships
    pc,                 \* per caller: the statement of add_edge it is about to run
    frame,              \* per caller: the arguments and locals of its call
    observed,           \* history: sum of the weights given to add_edge, per relationship
    created,            \* history: the keys add_node has inserted a node for
    last_call           \* history: the last call that returned, with its result

vars == <<graph_nodes, graph_edges, sqlite_sequence, files, file_relationships,
          pc, frame, observed, created, last_call>>

-----------------------------------------------------------------------------
(* Bounds of the model *)

MaxNodePk == 3      \* handles issued for nodes, in Spec and SpecConc
MaxEdgePk == 2      \* edge rows inserted, in Spec and SpecConc
MaxWeight == 3      \* weight an edge row may reach

(* Values *)

None == "None"
NoPk == 0
NoProps == <<>>

Threads == {"t1", "t2"}

File1 == <<"file", "1">>
File2 == <<"file", "2">>
Acme == <<"project", "Acme">>
Urgent == <<"tag", "urgent">>
Tax == <<"tag", "tax">>

Keys == {File1, File2, Acme, Urgent, Tax}
EdgeTypes == {"belongs_to", "tagged_with", "related_to"}
Weights == {1, 2}
Labels == {None, "a.pdf"}

\* add_edge(.., weight=1.0, ..)
DefaultWeight == 1

Max(a, b) == IF a >= b THEN a ELSE b

-----------------------------------------------------------------------------
(* The store: FileGraphStore over one connection *)

DB == [nodes |-> graph_nodes, edges |-> graph_edges, seq |-> sqlite_sequence]

EmptyDB == [nodes |-> {}, edges |-> {},
            seq |-> [graph_nodes |-> 0, graph_edges |-> 0]]

\* json.dumps(properties) if properties else None
json_dumps(properties) ==
    IF properties = NoProps \/ DOMAIN properties[1] = {} THEN None
    ELSE IF properties[1] = [src |-> "ai"] THEN "{\"src\": \"ai\"}"
    ELSE IF properties[1] = [src |-> "user"] THEN "{\"src\": \"user\"}"
    ELSE IF properties[1] = [pin |-> "yes"] THEN "{\"pin\": \"yes\"}"
    ELSE "{\"src\": \"ai\", \"pin\": \"yes\"}"

\* SELECT id FROM graph_nodes WHERE node_type = ? AND node_id = ?; fetchone()
get_node_pk(db, node_type, node_id) ==
    LET rows == {r \in db.nodes : r.node_type = node_type /\ r.node_id = node_id}
    IN IF rows = {} THEN NoPk
       ELSE (CHOOSE r \in rows : \A q \in rows : r.id <= q.id).id

\* Mutant of next_rowid: the smallest rowid that no row of the table has
next_rowid_unused(rows, seq) ==
    LET ids == {r.id : r \in rows}
    IN CHOOSE i \in 1..(Cardinality(ids) + 1) :
           i \notin ids /\ \A j \in 1..(i - 1) : j \in ids

\* The rowid an AUTOINCREMENT table gives its next row
next_rowid(rows, seq) ==
    LET ids == {r.id : r \in rows}
        top == IF ids = {} THEN 0 ELSE CHOOSE i \in ids : \A j \in ids : j <= i
    IN Max(seq, top) + 1

\* Mutant of replaced_rows: a plain INSERT into a table without the UNIQUE constraint
replaced_rows_none(nodes, node_type, node_id) == {}

\* The rows INSERT OR REPLACE deletes: those that conflict on UNIQUE(node_type, node_id)
replaced_rows(nodes, node_type, node_id) ==
    {r \in nodes : r.node_type = node_type /\ r.node_id = node_id}

\* node_type TEXT NOT NULL, node_id TEXT NOT NULL
not_null(node_type, node_id) == node_type # None /\ node_id # None

\* Mutant of add_node: a call without a label keeps the label the node has
add_node_keep_label(db, node_type, node_id, label, properties) ==
    LET pk == next_rowid(db.nodes, db.seq.graph_nodes)
        old == {r \in db.nodes : r.node_type = node_type /\ r.node_id = node_id}
        row == [id |-> pk, node_type |-> node_type, node_id |-> node_id,
                label |-> IF label = None /\ old # {}
                          THEN (CHOOSE r \in old : TRUE).label ELSE label,
                properties |-> json_dumps(properties)]
    IN IF ~not_null(node_type, node_id)
       THEN [db |-> db, ret |-> NoPk, raised |-> "IntegrityError"]
       ELSE [db |-> [db EXCEPT
                       !.nodes = (@ \ replaced_rows(@, node_type, node_id)) \cup {row},
                       !.seq.graph_nodes = pk],
             ret |-> pk, raised |-> None]

\* INSERT OR REPLACE INTO graph_nodes (node_type, node_id, label, properties);
\* commit; return cursor.lastrowid
\* raised names the exception the call ends with: the INSERT of a NULL into a
\* NOT NULL column raises IntegrityError and writes nothing
add_node(db, node_type, node_id, label, properties) ==
    LET pk == next_rowid(db.nodes, db.seq.graph_nodes)
        row == [id |-> pk, node_type |-> node_type, node_id |-> node_id,
                label |-> label, properties |-> json_dumps(properties)]
    IN IF ~not_null(node_type, node_id)
       THEN [db |-> db, ret |-> NoPk, raised |-> "IntegrityError"]
       ELSE [db |-> [db EXCEPT
                       !.nodes = (@ \ replaced_rows(@, node_type, node_id)) \cup {row},
                       !.seq.graph_nodes = pk],
             ret |-> pk, raised |-> None]

\* Mutant of get_or_create: add_node is called whether or not the key has a node
get_or_create_always(db, node_type, node_id) ==
    add_node(db, node_type, node_id, None, NoProps)

\* from_pk = get_node_pk(..); if not from_pk: from_pk = add_node(..)
get_or_create(db, node_type, node_id) ==
    LET pk == get_node_pk(db, node_type, node_id)
    IN IF pk = NoPk THEN add_node(db, node_type, node_id, None, NoProps)
       ELSE [db |-> db, ret |-> pk, raised |-> None]

\* Mutant of select_edge: the lookup leaves the edge type out
select_edge_any_type(db, from_pk, to_pk, edge_type) ==
    LET rows == {e \in db.edges : e.from_node = from_pk /\ e.to_node = to_pk}
    IN IF rows = {} THEN <<>>
       ELSE LET e == CHOOSE r \in rows : \A q \in rows : r.id <= q.id
            IN <<[id |-> e.id, weight |-> e.weight]>>

\* Mutant of select_edge: the lookup finds nothing
select_edge_none(db, from_pk, to_pk, edge_type) == <<>>

\* SELECT id, weight FROM graph_edges WHERE from_node = ? AND to_node = ?
\* AND edge_type = ?; fetchone()
select_edge(db, from_pk, to_pk, edge_type) ==
    LET rows == {e \in db.edges : e.from_node = from_pk /\ e.to_node = to_pk
                                  /\ e.edge_type = edge_type}
    IN IF rows = {} THEN <<>>
       ELSE LET e == CHOOSE r \in rows : \A q \in rows : r.id <= q.id
            IN <<[id |-> e.id, weight |-> e.weight]>>

\* Mutant of write_edge: an existing edge row is deleted and inserted anew
write_edge_replace(db, existing, from_pk, to_pk, edge_type, weight, properties) ==
    LET pk == next_rowid(db.edges, db.seq.graph_edges)
        kept == IF existing # <<>> THEN {e \in db.edges : e.id # existing[1].id}
                ELSE db.edges
        old == IF existing # <<>> THEN existing[1].weight ELSE 0
    IN [db EXCEPT
          !.edges = kept \cup {[id |-> pk, from_node |-> from_pk, to_node |-> to_pk,
                                edge_type |-> edge_type, weight |-> old + weight,
                                properties |-> json_dumps(properties)]},
          !.seq.graph_edges = pk]

\* Mutant of write_edge: the UPDATE stores the weight of the call
write_edge_set(db, existing, from_pk, to_pk, edge_type, weight, properties) ==
    IF existing # <<>>
    THEN [db EXCEPT !.edges =
            {IF e.id = existing[1].id
             THEN [e EXCEPT !.weight = weight,
                            !.properties = json_dumps(properties)]
             ELSE e : e \in @}]
    ELSE LET pk == next_rowid(db.edges, db.seq.graph_edges)
         IN [db EXCEPT
               !.edges = @ \cup {[id |-> pk, from_node |-> from_pk, to_node |-> to_pk,
                                  edge_type |-> edge_type, weight |-> weight,
                                  properties |-> json_dumps(properties)]},
               !.seq.graph_edges = pk]

\* if existing: UPDATE graph_edges SET weight = old_weight + weight,
\* properties = ? WHERE id = ?   else: INSERT INTO graph_edges
write_edge(db, existing, from_pk, to_pk, edge_type, weight, properties) ==
    IF existing # <<>>
    THEN [db EXCEPT !.edges =
            {IF e.id = existing[1].id
             THEN [e EXCEPT !.weight = existing[1].weight + weight,
                            !.properties = json_dumps(properties)]
             ELSE e : e \in @}]
    ELSE LET pk == next_rowid(db.edges, db.seq.graph_edges)
         IN [db EXCEPT
               !.edges = @ \cup {[id |-> pk, from_node |-> from_pk, to_node |-> to_pk,
                                  edge_type |-> edge_type, weight |-> weight,
                                  properties |-> json_dumps(properties)]},
               !.seq.graph_edges = pk]

\* The exception add_edge ends with: the one add_node raises for an endpoint
add_edge_raised(db, from_type, from_id, to_type, to_id) ==
    LET f == get_or_create(db, from_type, from_id)
    IN IF f.raised # None THEN f.raised
       ELSE get_or_create(f.db, to_type, to_id).raised

\* FileGraphStore.add_edge, run without interruption: the store it leaves,
\* which is the store at the raise if an add_node raises
add_edge(db, from_type, from_id, to_type, to_id, edge_type, weight, properties) ==
    LET f == get_or_create(db, from_type, from_id)
        t == get_or_create(f.db, to_type, to_id)
        existing == select_edge(t.db, f.ret, t.ret, edge_type)
    IN IF f.raised # None THEN db
       ELSE IF t.raised # None THEN f.db
       ELSE write_edge(t.db, existing, f.ret, t.ret, edge_type, weight, properties)

\* The rows of a table as cursor.fetchall() lists them: in rowid order
RECURSIVE fetchall(_)
fetchall(rows) ==
    IF rows = {} THEN <<>>
    ELSE LET r == CHOOSE x \in rows : \A y \in rows : x.id <= y.id
         IN <<r>> \o fetchall(rows \ {r})

\* FileGraphStore.get_stats
get_stats(db) ==
    [total_nodes |-> Cardinality(db.nodes),
     total_edges |-> Cardinality(db.edges),
     nodes_by_type |-> [ty \in {r.node_type : r \in db.nodes} |->
                          Cardinality({r \in db.nodes : r.node_type = ty})],
     edges_by_type |-> [ty \in {e.edge_type : e \in db.edges} |->
                          Cardinality({e \in db.edges : e.edge_type = ty})]]

-----------------------------------------------------------------------------
(* Queries *)

\* str(file_id)
str(n) == CASE n = 1 -> "1" [] n = 2 -> "2" [] n = 3 -> "3"

\* int(node_id)
int(x) == CASE x = "1" -> 1 [] x = "2" -> 2 [] x = "3" -> 3


\* One result row of get_neighbors: the node at the far end of edge e
neighbor_row(db, e, far_pk) ==
    LET n == CHOOSE r \in db.nodes : r.id = far_pk
    IN <<n.node_type, n.node_id, n.label, e.edge_type, e.weight>>

\* SELECT .. FROM graph_edges e JOIN graph_nodes n ON e.to_node = n.id
\* WHERE e.from_node = ? [AND e.edge_type = ?]
outgoing(db, pk, edge_type) ==
    {e \in db.edges : /\ e.from_node = pk
                      /\ \E n \in db.nodes : n.id = e.to_node
                      /\ (edge_type = None \/ edge_type = "" \/ e.edge_type = edge_type)}

\* SELECT .. FROM graph_edges e JOIN graph_nodes n ON e.from_node = n.id
\* WHERE e.to_node = ? [AND e.edge_type = ?]
incoming(db, pk, edge_type) ==
    {e \in db.edges : /\ e.to_node = pk
                      /\ \E n \in db.nodes : n.id = e.from_node
                      /\ (edge_type = None \/ edge_type = "" \/ e.edge_type = edge_type)}

\* FileGraphStore.get_neighbors
get_neighbors(db, node_type, node_id, edge_type, direction) ==
    LET pk == get_node_pk(db, node_type, node_id)
        out == fetchall(outgoing(db, pk, edge_type))
        inc == fetchall(incoming(db, pk, edge_type))
    IN IF pk = NoPk THEN <<>>
       ELSE (IF direction \in {"out", "both"}
             THEN [i \in 1..Len(out) |-> neighbor_row(db, out[i], out[i].to_node)]
             ELSE <<>>)
            \o
            (IF direction \in {"in", "both"}
             THEN [i \in 1..Len(inc) |-> neighbor_row(db, inc[i], inc[i].from_node)]
             ELSE <<>>)

\* The place of an edge type in SQLite's BINARY collation
collate(edge_type) ==
    CASE edge_type = "belongs_to" -> 1
      [] edge_type = "related_to" -> 2
      [] edge_type = "tagged_with" -> 3

\* Mutant of union_rows: only the edges that leave the node
union_rows_out(db, pk) ==
    {<<e.to_node, e.edge_type>> : e \in {x \in db.edges : x.from_node = pk}}

\* SELECT to_node, edge_type FROM graph_edges WHERE from_node = ?
\* UNION SELECT from_node, edge_type FROM graph_edges WHERE to_node = ?
union_rows(db, pk) ==
    {<<e.to_node, e.edge_type>> : e \in {x \in db.edges : x.from_node = pk}}
    \cup {<<e.from_node, e.edge_type>> : e \in {x \in db.edges : x.to_node = pk}}

\* cursor.fetchall() of the UNION: SQLite lists the distinct rows in the order
\* of (node, edge_type)
RECURSIVE fetchall_union(_)
fetchall_union(rows) ==
    IF rows = {} THEN <<>>
    ELSE LET r == CHOOSE x \in rows : \A y \in rows :
                      \/ x[1] < y[1]
                      \/ (x[1] = y[1] /\ collate(x[2]) <= collate(y[2]))
         IN <<r>> \o fetchall_union(rows \ {r})

\* Mutant of visit_neighbors: without the test neighbor_pk in visited
RECURSIVE visit_neighbors_revisit(_, _, _, _)
visit_neighbors_revisit(rows, cur, to_pk, st) ==
    IF rows = <<>> THEN st
    ELSE LET neighbor_pk == Head(rows)[1]
             new_path == Append(cur.path, <<cur.pk, Head(rows)[2], neighbor_pk>>)
         IN IF neighbor_pk = to_pk
            THEN [st EXCEPT !.ret = <<new_path>>]
            ELSE visit_neighbors_revisit(Tail(rows), cur, to_pk,
                     [st EXCEPT !.queue = Append(@, [pk |-> neighbor_pk,
                                                     path |-> new_path]),
                                !.visited = @ \cup {neighbor_pk}])

\* for neighbor_pk, edge_type in cursor.fetchall(): the body of find_path's loop
\* over the rows; st holds ret (empty until the loop returns), queue and visited
RECURSIVE visit_neighbors(_, _, _, _)
visit_neighbors(rows, cur, to_pk, st) ==
    IF rows = <<>> THEN st
    ELSE LET neighbor_pk == Head(rows)[1]
             new_path == Append(cur.path, <<cur.pk, Head(rows)[2], neighbor_pk>>)
         IN IF neighbor_pk \in st.visited
            THEN visit_neighbors(Tail(rows), cur, to_pk, st)
            ELSE IF neighbor_pk = to_pk
            THEN [st EXCEPT !.ret = <<new_path>>]
            ELSE visit_neighbors(Tail(rows), cur, to_pk,
                     [st EXCEPT !.queue = Append(@, [pk |-> neighbor_pk,
                                                     path |-> new_path]),
                                !.visited = @ \cup {neighbor_pk}])

\* Mutant of within_depth: the loop also expands a path of max_depth hops
within_depth_le(path, max_depth) == Len(path) <= max_depth

\* len(queue[0][1]) < max_depth
within_depth(path, max_depth) == Len(path) < max_depth

\* while queue and len(queue[0][1]) < max_depth: ...; return None
\* The result is <<>> for None and <<path>> for a list of hops
RECURSIVE bfs_path(_, _, _, _)
bfs_path(db, to_pk, max_depth, st) ==
    IF st.queue = <<>> \/ ~within_depth(Head(st.queue).path, max_depth) THEN <<>>
    ELSE LET next == visit_neighbors(
                         fetchall_union(union_rows(db, Head(st.queue).pk)),
                         Head(st.queue), to_pk, [st EXCEPT !.queue = Tail(@)])
         IN IF next.ret # <<>> THEN next.ret
            ELSE bfs_path(db, to_pk, max_depth, next)

\* Mutant of find_path: without the test from_pk == to_pk
find_path_no_same(db, from_type, from_id, to_type, to_id, max_depth) ==
    LET from_pk == get_node_pk(db, from_type, from_id)
        to_pk == get_node_pk(db, to_type, to_id)
    IN IF from_pk = NoPk \/ to_pk = NoPk THEN <<>>
       ELSE bfs_path(db, to_pk, max_depth,
                     [ret |-> <<>>, queue |-> <<[pk |-> from_pk, path |-> <<>>]>>,
                      visited |-> {from_pk}])

\* Mutant of find_path: the test from_pk == to_pk comes before the test for
\* unknown endpoints
find_path_same_first(db, from_type, from_id, to_type, to_id, max_depth) ==
    LET from_pk == get_node_pk(db, from_type, from_id)
        to_pk == get_node_pk(db, to_type, to_id)
    IN IF from_pk = to_pk THEN << <<>> >>
       ELSE IF from_pk = NoPk \/ to_pk = NoPk THEN <<>>
       ELSE bfs_path(db, to_pk, max_depth,
                     [ret |-> <<>>, queue |-> <<[pk |-> from_pk, path |-> <<>>]>>,
                      visited |-> {from_pk}])

\* FileGraphStore.find_path
find_path(db, from_type, from_id, to_type, to_id, max_depth) ==
    LET from_pk == get_node_pk(db, from_type, from_id)
        to_pk == get_node_pk(db, to_type, to_id)
    IN IF from_pk = NoPk \/ to_pk = NoPk THEN <<>>
       ELSE IF from_pk = to_pk THEN << <<>> >>
       ELSE bfs_path(db, to_pk, max_depth,
                     [ret |-> <<>>, queue |-> <<[pk |-> from_pk, path |-> <<>>]>>,
                      visited |-> {from_pk}])

\* for from_pk, to_pk, edge_type, weight in cursor.fetchall(): the body of
\* get_subgraph's loop over the rows
RECURSIVE collect_edges(_, _, _)
collect_edges(rows, cur, st) ==
    IF rows = <<>> THEN st
    ELSE LET e == Head(rows)
             neighbor == IF e.from_node = cur.pk THEN e.to_node ELSE e.from_node
             listed == [st EXCEPT !.edges =
                           Append(@, [from |-> e.from_node, to |-> e.to_node,
                                      type |-> e.edge_type, weight |-> e.weight])]
         IN collect_edges(Tail(rows), cur,
                IF neighbor \in st.visited_nodes THEN listed
                ELSE [listed EXCEPT !.visited_nodes = @ \cup {neighbor},
                                    !.queue = Append(@, [pk |-> neighbor,
                                                         depth |-> cur.depth + 1])])

\* Mutant of at_depth_limit: a node at max_depth is expanded too
at_depth_limit_gt(depth, max_depth) == depth > max_depth

\* if depth >= max_depth: continue
at_depth_limit(depth, max_depth) == depth >= max_depth

\* while queue: ...   st.cursor tells whether the loop has bound cursor
\* (SELECT .. FROM graph_edges WHERE from_node = ? OR to_node = ?, in rowid order)
RECURSIVE bfs_subgraph(_, _, _)
bfs_subgraph(db, max_depth, st) ==
    IF st.queue = <<>> THEN st
    ELSE LET cur == Head(st.queue)
         IN IF at_depth_limit(cur.depth, max_depth)
            THEN bfs_subgraph(db, max_depth, [st EXCEPT !.queue = Tail(@)])
            ELSE bfs_subgraph(db, max_depth,
                     collect_edges(
                         fetchall({e \in db.edges : e.from_node = cur.pk
                                                    \/ e.to_node = cur.pk}),
                         cur, [st EXCEPT !.queue = Tail(@), !.cursor = TRUE]))

\* FileGraphStore.get_subgraph.  raised names the exception the call ends with:
\* the last query runs on the cursor of the loop, unbound if no node was expanded
get_subgraph(db, node_type, node_id, max_depth) ==
    LET pk == get_node_pk(db, node_type, node_id)
        st == bfs_subgraph(db, max_depth,
                           [queue |-> <<[pk |-> pk, depth |-> 0]>>,
                            visited_nodes |-> {pk}, edges |-> <<>>, cursor |-> FALSE])
        rows == fetchall({n \in db.nodes : n.id \in st.visited_nodes})
    IN IF pk = NoPk THEN [raised |-> None, nodes |-> <<>>, edges |-> <<>>]
       ELSE IF ~st.cursor
       THEN [raised |-> "UnboundLocalError", nodes |-> <<>>, edges |-> <<>>]
       ELSE [raised |-> None,
             nodes |-> [i \in 1..Len(rows) |->
                          [pk |-> rows[i].id, type |-> rows[i].node_type,
                           id |-> rows[i].node_id, label |-> rows[i].label]],
             edges |-> st.edges]

\* file_ids = [int(node_id) for .. in neighbors if node_type == 'file']
file_ids(neighbors) ==
    {int(neighbors[i][2]) : i \in {j \in 1..Len(neighbors) : neighbors[j][1] = "file"}}

\* FileGraphIntegration.find_all_project_files
find_all_project_files(db, file_rows, project_name) ==
    LET ids == file_ids(get_neighbors(db, "project", project_name, None, "in"))
    IN {[filename |-> f.filename, path |-> f.path, summary |-> f.ai_summary] :
          f \in {x \in file_rows : x.id \in ids}}

\* FileGraphIntegration.find_files_by_tag
find_files_by_tag(db, file_rows, tag) ==
    LET ids == file_ids(get_neighbors(db, "tag", tag, None, "in"))
    IN {[filename |-> f.filename, path |-> f.path] :
          f \in {x \in file_rows : x.id \in ids}}

-----------------------------------------------------------------------------
(* The builder: FileGraphIntegration *)

\* tags.split(','), on the values ai_tags takes in the model
split(tags) ==
    CASE tags = "" -> <<"">>
      [] tags = "urgent" -> <<"urgent">>
      [] tags = "urgent, tax" -> <<"urgent", " tax">>
      [] tags = "tax,,urgent " -> <<"tax", "", "urgent ">>

\* tag.strip()
strip(tag) ==
    CASE tag = " tax" -> "tax"
      [] tag = "urgent " -> "urgent"
      [] OTHER -> tag

\* for tag in tags.split(','): add_node('tag', tag); add_edge(file, tag, 'tagged_with')
\* (the test on DOMAIN next has TLC compute each step's store before it goes on)
RECURSIVE link_tags(_, _, _)
link_tags(db, file_id, toks) ==
    IF toks = <<>> THEN db
    ELSE LET tag == strip(Head(toks))
             linked == add_edge(add_node(db, "tag", tag, tag, NoProps).db,
                                "file", str(file_id), "tag", tag, "tagged_with",
                                1, NoProps)
             next == IF tag # "" THEN linked ELSE db
         IN IF DOMAIN next # {} THEN link_tags(next, file_id, Tail(toks)) ELSE db

\* The body of the loop over the active files
link_file(db, f) ==
    LET d1 == add_node(db, "file", str(f.id), f.filename, NoProps).db
        d2 == IF f.project # None /\ f.project # ""
              THEN add_edge(add_node(d1, "project", f.project, f.project, NoProps).db,
                            "file", str(f.id), "project", f.project, "belongs_to",
                            1, NoProps)
              ELSE d1
    IN IF f.ai_tags # None /\ f.ai_tags # ""
       THEN link_tags(d2, f.id, split(f.ai_tags))
       ELSE d2

RECURSIVE link_files(_, _)
link_files(db, rows) ==
    IF rows = <<>> THEN db
    ELSE LET next == link_file(db, Head(rows))
         IN IF DOMAIN next # {} THEN link_files(next, Tail(rows)) ELSE db

\* The loop over file_relationships
RECURSIVE link_related(_, _)
link_related(db, rows) ==
    IF rows = <<>> THEN db
    ELSE LET next == add_edge(db, "file", str(Head(rows).file1_id),
                              "file", str(Head(rows).file2_id), "related_to",
                              Head(rows).strength, NoProps)
         IN IF DOMAIN next # {} THEN link_related(next, Tail(rows)) ELSE db

\* FileGraphIntegration.build_graph_from_database
build_graph_from_database(db, file_rows, relationship_rows) ==
    LET active == {f \in file_rows : f.status = "active"}
        built == link_related(link_files(db, fetchall(active)),
                              fetchall(relationship_rows))
    IN [db |-> built, ret |-> get_stats(built)]

-----------------------------------------------------------------------------
(* History *)

\* observed maps a relationship <<from key, to key, edge type>> that add_edge
\* was called for to the sum of the weights given
Observe(obs, from_key, to_key, edge_type, weight) ==
    LET r == <<from_key, to_key, edge_type>>
    IN [x \in DOMAIN obs \cup {r} |->
          (IF x \in DOMAIN obs THEN obs[x] ELSE 0) + (IF x = r THEN weight ELSE 0)]

WithinBounds(db, max_node, max_edge, max_weight) ==
    /\ db.seq.graph_nodes <= max_node
    /\ db.seq.graph_edges <= max_edge
    /\ \A e \in db.edges : e.weight <= max_weight

Store(db) ==
    /\ graph_nodes' = db.nodes
    /\ graph_edges' = db.edges
    /\ sqlite_sequence' = db.seq

Idle == \A t \in Threads : pc[t] = "idle"

-----------------------------------------------------------------------------
(* Calls that run alone on the connection.  A call draws its arguments     *)
(* from the sets the specification gives it.                               *)

AddNode(KeySet, LabelSet, PropSet, max_node, max_edge, max_weight) ==
    \E k \in KeySet, label \in LabelSet, properties \in PropSet :
        LET r == add_node(DB, k[1], k[2], label, properties)
        IN /\ Idle
           /\ WithinBounds(r.db, max_node, max_edge, max_weight)
           /\ Store(r.db)
           /\ last_call' = [op |-> "add_node", key |-> k, label |-> label,
                            properties |-> properties,
                            was |-> get_node_pk(DB, k[1], k[2]), ret |-> r.ret,
                            raised |-> r.raised]
           /\ created' = IF r.raised = None THEN created \cup {k} ELSE created
           /\ UNCHANGED <<files, file_relationships, pc, frame, observed>>

AddEdge(EdgeSet, WeightSet, PropSet, max_node, max_edge, max_weight) ==
    \E e \in EdgeSet, weight \in WeightSet, properties \in PropSet :
        LET f == e[1]
            t == e[2]
            db == add_edge(DB, f[1], f[2], t[1], t[2], e[3], weight, properties)
            raised == add_edge_raised(DB, f[1], f[2], t[1], t[2])
        IN /\ Idle
           /\ WithinBounds(db, max_node, max_edge, max_weight)
           /\ Store(db)
           /\ observed' = IF raised = None THEN Observe(observed, f, t, e[3], weight)
                          ELSE observed
           /\ last_call' = [op |-> "add_edge", edge |-> e, properties |-> properties,
                            raised |-> raised]
           /\ created' = created \cup {<<n.node_type, n.node_id>> : n \in graph_nodes' \ graph_nodes}
           /\ UNCHANGED <<files, file_relationships, pc, frame>>

\* What add_edge is given while build_graph_from_database runs
RECURSIVE ObserveTags(_, _, _)
ObserveTags(obs, f, toks) ==
    IF toks = <<>> THEN obs
    ELSE LET tag == strip(Head(toks))
         IN ObserveTags(IF tag # ""
                        THEN Observe(obs, <<"file", str(f.id)>>, <<"tag", tag>>,
                                     "tagged_with", 1)
                        ELSE obs, f, Tail(toks))

RECURSIVE ObserveFiles(_, _)
ObserveFiles(obs, rows) ==
    IF rows = <<>> THEN obs
    ELSE LET f == Head(rows)
             o1 == IF f.project # None /\ f.project # ""
                   THEN Observe(obs, <<"file", str(f.id)>>, <<"project", f.project>>,
                                "belongs_to", 1)
                   ELSE obs
             o2 == IF f.ai_tags # None /\ f.ai_tags # ""
                   THEN ObserveTags(o1, f, split(f.ai_tags))
                   ELSE o1
         IN ObserveFiles(o2, Tail(rows))

RECURSIVE ObserveRelated(_, _)
ObserveRelated(obs, rows) ==
    IF rows = <<>> THEN obs
    ELSE ObserveRelated(Observe(obs, <<"file", str(Head(rows).file1_id)>>,
                                <<"file", str(Head(rows).file2_id)>>, "related_to",
                                Head(rows).strength),
                        Tail(rows))

Builds == IF last_call.op = "build" THEN last_call.builds ELSE 0

Build ==
    LET r == build_graph_from_database(DB, files, file_relationships)
    IN /\ Idle
       /\ Store(r.db)
       /\ observed' = ObserveRelated(
                        ObserveFiles(observed,
                                     fetchall({f \in files : f.status = "active"})),
                        fetchall(file_relationships))
       /\ last_call' = [op |-> "build", ret |-> r.ret,
                        builds |-> Builds + 1]
       /\ created' = created \cup {<<n.node_type, n.node_id>> : n \in graph_nodes' \ graph_nodes}
       /\ UNCHANGED <<files, file_relationships, pc, frame>>

\* Queries: the call returns its result and leaves the store as it is
FindPath(KeySet, DepthSet) ==
    \E a \in KeySet, b \in KeySet, max_depth \in DepthSet :
        /\ Idle
        /\ last_call' = [op |-> "find_path", from |-> a, to |-> b,
                         max_depth |-> max_depth,
                         ret |-> find_path(DB, a[1], a[2], b[1], b[2], max_depth)]
        /\ UNCHANGED <<graph_nodes, graph_edges, sqlite_sequence, files,
                       file_relationships, pc, frame, observed, created>>

GetSubgraph(KeySet, DepthSet) ==
    \E k \in KeySet, max_depth \in DepthSet :
        /\ Idle
        /\ last_call' = [op |-> "get_subgraph", key |-> k, max_depth |-> max_depth,
                         ret |-> get_subgraph(DB, k[1], k[2], max_depth)]
        /\ UNCHANGED <<graph_nodes, graph_edges, sqlite_sequence, files,
                       file_relationships, pc, frame, observed, created>>

\* Mutant of GetNeighbors: the query creates the node it is asked about
GetNeighborsVivify(KeySet, TypeSet, DirectionSet) ==
    \E k \in KeySet, edge_type \in TypeSet, direction \in DirectionSet :
        LET r == get_or_create(DB, k[1], k[2])
        IN /\ Idle
           /\ Store(r.db)
           /\ last_call' = [op |-> "get_neighbors", key |-> k, edge_type |-> edge_type,
                            direction |-> direction,
                            ret |-> get_neighbors(r.db, k[1], k[2], edge_type, direction)]
           /\ UNCHANGED <<files, file_relationships, pc, frame, observed, created>>

GetNeighbors(KeySet, TypeSet, DirectionSet) ==
    \E k \in KeySet, edge_type \in TypeSet, direction \in DirectionSet :
        /\ Idle
        /\ last_call' = [op |-> "get_neighbors", key |-> k, edge_type |-> edge_type,
                         direction |-> direction,
                         ret |-> get_neighbors(DB, k[1], k[2], edge_type, direction)]
        /\ UNCHANGED <<graph_nodes, graph_edges, sqlite_sequence, files,
                       file_relationships, pc, frame, observed, created>>

GetNodePk(KeySet) ==
    \E k \in KeySet :
        /\ Idle
        /\ last_call' = [op |-> "get_node_pk", key |-> k,
                         ret |-> get_node_pk(DB, k[1], k[2])]
        /\ UNCHANGED <<graph_nodes, graph_edges, sqlite_sequence, files,
                       file_relationships, pc, frame, observed, created>>

GetStats ==
    /\ Idle
    /\ last_call' = [op |-> "get_stats", ret |-> get_stats(DB)]
    /\ UNCHANGED <<graph_nodes, graph_edges, sqlite_sequence, files,
                   file_relationships, pc, frame, observed, created>>

-----------------------------------------------------------------------------
(* Callers that share the connection (check_same_thread=False): add_edge   *)
(* runs one SQL statement at a time, and another caller's statement may    *)
(* run between two of them.                                                *)

CallAddEdge(t, EdgeSet, WeightSet) ==
    \E e \in EdgeSet, weight \in WeightSet :
        /\ pc[t] = "idle"
        /\ pc' = [pc EXCEPT ![t] = "get_from"]
        /\ frame' = [frame EXCEPT ![t] = [edge |-> e, weight |-> weight,
                                          from_pk |-> NoPk, to_pk |-> NoPk,
                                          existing |-> <<>>]]
        /\ UNCHANGED <<graph_nodes, graph_edges, sqlite_sequence, files,
                       file_relationships, observed, created, last_call>>

\* from_pk = self.get_node_pk(from_type, from_id)
GetFrom(t) ==
    LET k == frame[t].edge[1]
        pk == get_node_pk(DB, k[1], k[2])
    IN /\ pc[t] = "get_from"
       /\ frame' = [frame EXCEPT ![t].from_pk = pk]
       /\ pc' = [pc EXCEPT ![t] = IF pk = NoPk THEN "add_from" ELSE "get_to"]
       /\ UNCHANGED <<graph_nodes, graph_edges, sqlite_sequence, files,
                      file_relationships, observed, created, last_call>>

\* from_pk = self.add_node(from_type, from_id)
AddFrom(t) ==
    LET k == frame[t].edge[1]
        r == add_node(DB, k[1], k[2], None, NoProps)
    IN /\ pc[t] = "add_from"
       /\ WithinBounds(r.db, MaxNodePk, MaxEdgePk, MaxWeight)
       /\ Store(r.db)
       /\ frame' = [frame EXCEPT ![t].from_pk = r.ret]
       /\ pc' = [pc EXCEPT ![t] = "get_to"]
       /\ created' = created \cup {k}
       /\ UNCHANGED <<files, file_relationships, observed, last_call>>

\* to_pk = self.get_node_pk(to_type, to_id)
GetTo(t) ==
    LET k == frame[t].edge[2]
        pk == get_node_pk(DB, k[1], k[2])
    IN /\ pc[t] = "get_to"
       /\ frame' = [frame EXCEPT ![t].to_pk = pk]
       /\ pc' = [pc EXCEPT ![t] = IF pk = NoPk THEN "add_to" ELSE "select"]
       /\ UNCHANGED <<graph_nodes, graph_edges, sqlite_sequence, files,
                      file_relationships, observed, created, last_call>>

\* to_pk = self.add_node(to_type, to_id)
AddTo(t) ==
    LET k == frame[t].edge[2]
        r == add_node(DB, k[1], k[2], None, NoProps)
    IN /\ pc[t] = "add_to"
       /\ WithinBounds(r.db, MaxNodePk, MaxEdgePk, MaxWeight)
       /\ Store(r.db)
       /\ frame' = [frame EXCEPT ![t].to_pk = r.ret]
       /\ pc' = [pc EXCEPT ![t] = "select"]
       /\ created' = created \cup {k}
       /\ UNCHANGED <<files, file_relationships, observed, last_call>>

\* SELECT id, weight FROM graph_edges ...; existing = cursor.fetchone()
SelectEdge(t) ==
    /\ pc[t] = "select"
    /\ frame' = [frame EXCEPT ![t].existing =
                    select_edge(DB, frame[t].from_pk, frame[t].to_pk, frame[t].edge[3])]
    /\ pc' = [pc EXCEPT ![t] = "write"]
    /\ UNCHANGED <<graph_nodes, graph_edges, sqlite_sequence, files,
                   file_relationships, observed, created, last_call>>

\* UPDATE or INSERT; commit; return
WriteEdge(t) ==
    LET fr == frame[t]
        db == write_edge(DB, fr.existing, fr.from_pk, fr.to_pk, fr.edge[3],
                         fr.weight, NoProps)
    IN /\ pc[t] = "write"
       /\ WithinBounds(db, MaxNodePk, MaxEdgePk, MaxWeight)
       /\ Store(db)
       /\ observed' = Observe(observed, fr.edge[1], fr.edge[2], fr.edge[3], fr.weight)
       /\ last_call' = [op |-> "add_edge", edge |-> fr.edge]
       /\ pc' = [pc EXCEPT ![t] = "idle"]
       /\ frame' = [frame EXCEPT ![t] = <<>>]
       /\ UNCHANGED <<files, file_relationships, created>>

\* add_node is one statement
CallAddNode(t, KeySet) ==
    \E k \in KeySet :
        LET r == add_node(DB, k[1], k[2], None, NoProps)
        IN /\ pc[t] = "idle"
           /\ WithinBounds(r.db, MaxNodePk, MaxEdgePk, MaxWeight)
           /\ Store(r.db)
           /\ last_call' = [op |-> "add_node", key |-> k,
                            was |-> get_node_pk(DB, k[1], k[2]), ret |-> r.ret]
           /\ created' = created \cup {k}
           /\ UNCHANGED <<files, file_relationships, pc, frame, observed>>

-----------------------------------------------------------------------------
(* Specifications *)

InitStore ==
    /\ graph_nodes = {}
    /\ graph_edges = {}
    /\ sqlite_sequence = [graph_nodes |-> 0, graph_edges |-> 0]
    /\ pc = [t \in Threads |-> "idle"]
    /\ frame = [t \in Threads |-> <<>>]
    /\ observed = <<>>
    /\ created = {}
    /\ last_call = [op |-> "init"]

\* Spec: add_node, add_edge and build_graph_from_database called one after
\* the other, over a file index of one file
SeqKeys == {File1, Acme}
SeqEdges == {<<File1, Acme, "belongs_to">>, <<File1, Acme, "related_to">>,
             <<Acme, File1, "belongs_to">>, <<File1, File1, "related_to">>}
SeqFiles == {[id |-> 1, path |-> "/1.pdf", filename |-> "1.pdf", project |-> "Acme",
              ai_tags |-> None, status |-> "active", ai_summary |-> None]}

Init ==
    /\ InitStore
    /\ files = SeqFiles
    /\ file_relationships = {}

Next ==
    \/ AddNode(SeqKeys, {None}, {NoProps}, MaxNodePk, MaxEdgePk, MaxWeight)
    \/ AddEdge(SeqEdges, Weights, {NoProps}, MaxNodePk, MaxEdgePk, MaxWeight)
    \/ (Build /\ WithinBounds(DB', MaxNodePk, MaxEdgePk, MaxWeight))

Spec == Init /\ [][Next]_vars

\* SpecConc: two callers on the shared connection
ConcKeys == {Acme}
ConcEdges == {<<File1, Acme, "belongs_to">>}

NextConc ==
    \E t \in Threads :
        \/ CallAddEdge(t, ConcEdges, Weights)
        \/ GetFrom(t)
        \/ AddFrom(t)
        \/ GetTo(t)
        \/ AddTo(t)
        \/ SelectEdge(t)
        \/ WriteEdge(t)
        \/ CallAddNode(t, ConcKeys)

SpecConc == Init /\ [][NextConc]_vars

\* SpecBuild: build_graph_from_database over the file indexes of two files
FileIds == {1, 2}
Projects == {None, "", "Acme"}
TagStrings == {None, "", "urgent", "urgent, tax", "tax,,urgent "}
Strengths == {1, 2}
MaxBuilds == 2      \* calls of build_graph_from_database in a row

FileTables ==
    {{[id |-> i, path |-> "/" \o str(i) \o ".pdf", filename |-> str(i) \o ".pdf",
       project |-> p[i], ai_tags |-> g[i], status |-> st[i],
       ai_summary |-> None] : i \in FileIds} :
        p \in [FileIds -> Projects], g \in [FileIds -> TagStrings],
        st \in [FileIds -> {"active", "archived"}]}

RelationshipRows ==
    {[id |-> 1, file1_id |-> 1, file2_id |-> 2, strength |-> 1],
     [id |-> 2, file1_id |-> 1, file2_id |-> 2, strength |-> 2],
     [id |-> 3, file1_id |-> 2, file2_id |-> 2, strength |-> 1]}

InitBuild ==
    /\ InitStore
    /\ files \in FileTables
    /\ file_relationships \in SUBSET RelationshipRows

NextBuild == Builds < MaxBuilds /\ Build

SpecBuild == InitBuild /\ [][NextBuild]_vars

\* SpecQuery: find_path and get_subgraph on the graphs that add_edge and add_node
\* make of two files, a project and a tag.  Every relationship is recorded
\* once, with the default weight.
MaxQueryNodePk == 5     \* handles issued for nodes, in SpecQuery
MaxQueryEdgePk == 3     \* edge rows inserted, in SpecQuery
MaxDepth == 3           \* largest max_depth asked for

QueryKeys == {File1, File2, Acme, Urgent}
QueryEdges == {<<File1, Acme, "belongs_to">>, <<File2, Acme, "belongs_to">>,
               <<File2, Urgent, "tagged_with">>, <<File1, File2, "related_to">>,
               <<File1, File1, "related_to">>}

\* A query is asked of the store as the construction or a write left it: asked
\* after another query it finds the same store
Written == last_call.op \notin {"find_path", "get_subgraph", "get_neighbors",
                               "get_stats", "get_node_pk"}

NextQuery ==
    \/ AddNode({Acme}, {None}, {NoProps},
               MaxQueryNodePk, MaxQueryEdgePk, DefaultWeight)
    \/ AddEdge(QueryEdges, {DefaultWeight}, {NoProps},
               MaxQueryNodePk, MaxQueryEdgePk, DefaultWeight)
    \/ (Written /\ FindPath(QueryKeys, (-1)..MaxDepth))
    \/ (Written /\ GetSubgraph(QueryKeys, 0..MaxDepth))

SpecQuery == Init /\ [][NextQuery]_vars

\* SpecNeighbors: get_neighbors on the graphs that add_node, with and without
\* a label, and add_edge make of a file and a project
MaxNbNodePk == 3        \* handles issued for nodes, in SpecNeighbors
MaxNbEdgePk == 2        \* edge rows inserted, in SpecNeighbors
MaxNbWeight == 2        \* weight an edge row may reach, in SpecNeighbors

Directions == {"out", "in", "both"}

NextNeighbors ==
    \/ AddNode(SeqKeys, Labels, {NoProps}, MaxNbNodePk, MaxNbEdgePk, MaxNbWeight)
    \/ AddEdge(SeqEdges, {DefaultWeight}, {NoProps},
               MaxNbNodePk, MaxNbEdgePk, MaxNbWeight)
    \/ (Written /\ GetNeighbors(SeqKeys, {None, "belongs_to", "related_to"},
                                Directions))

SpecNeighbors == Init /\ [][NextNeighbors]_vars

\* SpecValidate: add_node and add_edge called with keys whose node_type or
\* node_id is empty or None, next to calls with well-formed keys
BadKeys == {<<"", "1">>, <<None, "1">>, <<"file", "">>, <<"file", None>>}
ValidateEdges == {<<File1, Acme, "belongs_to">>}
                 \cup {<<k, Acme, "belongs_to">> : k \in BadKeys}
                 \cup {<<Acme, k, "belongs_to">> : k \in BadKeys}

NextValidate ==
    \/ AddNode({Acme} \cup BadKeys, {None}, {NoProps}, MaxNodePk, MaxEdgePk, MaxWeight)
    \/ AddEdge(ValidateEdges, {DefaultWeight}, {NoProps},
               MaxNodePk, MaxEdgePk, MaxWeight)

SpecValidate == Init /\ [][NextValidate]_vars

\* SpecUnknown: the three queries asked about keys that have a node and keys
\* that have none
UnknownKeys == {File1, Acme, Tax}

NextUnknown ==
    \/ AddNode({Acme}, {None}, {NoProps}, MaxNbNodePk, MaxNbEdgePk, MaxNbWeight)
    \/ AddEdge({<<File1, Acme, "belongs_to">>, <<Acme, Acme, "related_to">>},
               {DefaultWeight}, {NoProps}, MaxNbNodePk, MaxNbEdgePk, MaxNbWeight)
    \/ (Written /\ GetNeighbors(UnknownKeys, {None, "belongs_to"}, Directions))
    \/ (Written /\ FindPath(UnknownKeys, 0..MaxDepth))
    \/ (Written /\ GetSubgraph(UnknownKeys, 0..MaxDepth))

SpecUnknown == Init /\ [][NextUnknown]_vars

\* SpecProps: add_edge called with and without properties, between add_node
\* calls
EdgeProps == {NoProps, <<[src |-> "ai"]>>, <<[pin |-> "yes"]>>}

NextProps ==
    \/ AddNode(SeqKeys, {None}, {NoProps}, MaxNodePk, MaxEdgePk, MaxWeight)
    \/ AddEdge(SeqEdges, {DefaultWeight}, EdgeProps, MaxNodePk, MaxEdgePk, MaxWeight)

SpecProps == Init /\ [][NextProps]_vars

\* SpecVivify: add_edge between keys that add_node has or has not created,
\* with or without a label and properties, and get_stats
NodeProps == {NoProps, <<[src |-> "user"]>>}
VivifyEdges == {<<File1, Acme, "belongs_to">>, <<Acme, File1, "related_to">>,
                <<File1, File1, "related_to">>}

NextVivify ==
    \/ AddNode(SeqKeys, Labels, NodeProps, MaxNbNodePk, MaxNbEdgePk, MaxNbWeight)
    \/ AddEdge(VivifyEdges, {DefaultWeight}, {NoProps},
               MaxNbNodePk, MaxNbEdgePk, MaxNbWeight)
    \/ (Written /\ GetStats)

SpecVivify == Init /\ [][NextVivify]_vars

\* SpecWalk: find_path and get_subgraph run one iteration of their while loop
\* at a time, on graphs with a cycle, a self-loop, antiparallel edges and two
\* edge types between the same pair.  frame[t].enq lists the handles in the
\* order in which they were put in the queue.
MaxWalkNodePk == 3      \* handles issued for nodes, in SpecWalk
MaxWalkEdgePk == 3      \* edge rows inserted, in SpecWalk
MaxWalkDepth == 4       \* largest max_depth asked for, in SpecWalk
MaxWalkWeight == 1      \* largest weight of an edge, in SpecWalk

WalkKeys == {File1, File2, Acme}
WalkEdges == {<<File1, File2, "related_to">>, <<File2, File1, "related_to">>,
              <<File1, File1, "related_to">>, <<File1, File2, "belongs_to">>,
              <<File2, Acme, "belongs_to">>, <<Acme, File1, "belongs_to">>}
WalkDepths == {0, 1, MaxWalkDepth}

\* The handles of the entries that a loop iteration appended to the queue
Enqueued(before, after) ==
    [i \in 1..(Len(after) - (Len(before) - 1)) |-> after[Len(before) - 1 + i].pk]

\* find_path up to its while loop
CallFindPath(t, KeySet, DepthSet) ==
    \E a \in KeySet, b \in KeySet, max_depth \in DepthSet :
        LET from_pk == get_node_pk(DB, a[1], a[2])
            to_pk == get_node_pk(DB, b[1], b[2])
        IN /\ Idle
           /\ IF from_pk = NoPk \/ to_pk = NoPk \/ from_pk = to_pk
              THEN /\ last_call' = [op |-> "find_path", from |-> a, to |-> b,
                                    max_depth |-> max_depth,
                                    ret |-> IF from_pk = NoPk \/ to_pk = NoPk
                                            THEN <<>> ELSE << <<>> >>]
                   /\ UNCHANGED <<pc, frame>>
              ELSE /\ pc' = [pc EXCEPT ![t] = "find_path"]
                   /\ frame' = [frame EXCEPT ![t] =
                                   [from |-> a, to |-> b, max_depth |-> max_depth,
                                    to_pk |-> to_pk,
                                    st |-> [ret |-> <<>>,
                                            queue |-> <<[pk |-> from_pk, path |-> <<>>]>>,
                                            visited |-> {from_pk}],
                                    enq |-> <<from_pk>>, iterations |-> 0]]
                   /\ UNCHANGED last_call
           /\ UNCHANGED <<graph_nodes, graph_edges, sqlite_sequence, files,
                          file_relationships, observed, created>>

\* One test of find_path's while condition and, if it holds, one run of the
\* loop body; the call returns when the condition fails or a row is the target
FindPathLoop(t) ==
    LET fr == frame[t]
        st == fr.st
        next == visit_neighbors(fetchall_union(union_rows(DB, Head(st.queue).pk)),
                                Head(st.queue), fr.to_pk,
                                [st EXCEPT !.queue = Tail(@)])
        return(ret) ==
            /\ pc' = [pc EXCEPT ![t] = "idle"]
            /\ frame' = [frame EXCEPT ![t] = <<>>]
            /\ last_call' = [op |-> "find_path", from |-> fr.from, to |-> fr.to,
                             max_depth |-> fr.max_depth, ret |-> ret,
                             enq |-> fr.enq, iterations |-> fr.iterations]
    IN /\ pc[t] = "find_path"
       /\ IF st.queue = <<>> \/ ~within_depth(Head(st.queue).path, fr.max_depth)
          THEN return(<<>>)
          ELSE IF next.ret # <<>>
          THEN return(next.ret)
          ELSE /\ frame' = [frame EXCEPT
                              ![t].st = next,
                              ![t].enq = @ \o Enqueued(st.queue, next.queue),
                              ![t].iterations = @ + 1]
               /\ UNCHANGED <<pc, last_call>>
       /\ UNCHANGED <<graph_nodes, graph_edges, sqlite_sequence, files,
                      file_relationships, observed, created>>

\* get_subgraph up to its while loop
CallGetSubgraph(t, KeySet, DepthSet) ==
    \E k \in KeySet, max_depth \in DepthSet :
        LET pk == get_node_pk(DB, k[1], k[2])
        IN /\ Idle
           /\ IF pk = NoPk
              THEN /\ last_call' = [op |-> "get_subgraph", key |-> k,
                                    max_depth |-> max_depth,
                                    ret |-> [raised |-> None, nodes |-> <<>>,
                                             edges |-> <<>>]]
                   /\ UNCHANGED <<pc, frame>>
              ELSE /\ pc' = [pc EXCEPT ![t] = "get_subgraph"]
                   /\ frame' = [frame EXCEPT ![t] =
                                   [key |-> k, max_depth |-> max_depth,
                                    st |-> [queue |-> <<[pk |-> pk, depth |-> 0]>>,
                                            visited_nodes |-> {pk}, edges |-> <<>>,
                                            cursor |-> FALSE],
                                    enq |-> <<pk>>, iterations |-> 0]]
                   /\ UNCHANGED last_call
           /\ UNCHANGED <<graph_nodes, graph_edges, sqlite_sequence, files,
                          file_relationships, observed, created>>

\* nodes = [{'pk': .., 'type': .., 'id': .., 'label': ..} for row in ..]
\* return {'nodes': nodes, 'edges': edges}
subgraph_result(db, st) ==
    LET rows == fetchall({n \in db.nodes : n.id \in st.visited_nodes})
    IN IF ~st.cursor
       THEN [raised |-> "UnboundLocalError", nodes |-> <<>>, edges |-> <<>>]
       ELSE [raised |-> None,
             nodes |-> [i \in 1..Len(rows) |->
                          [pk |-> rows[i].id, type |-> rows[i].node_type,
                           id |-> rows[i].node_id, label |-> rows[i].label]],
             edges |-> st.edges]

\* One test of get_subgraph's while condition and, if it holds, one run of the
\* loop body; the call returns when the queue is empty
GetSubgraphLoop(t) ==
    LET fr == frame[t]
        st == fr.st
        cur == Head(st.queue)
        next == IF at_depth_limit(cur.depth, fr.max_depth)
                THEN [st EXCEPT !.queue = Tail(@)]
                ELSE collect_edges(
                         fetchall({e \in DB.edges : e.from_node = cur.pk
                                                    \/ e.to_node = cur.pk}),
                         cur, [st EXCEPT !.queue = Tail(@), !.cursor = TRUE])
    IN /\ pc[t] = "get_subgraph"
       /\ IF st.queue = <<>>
          THEN /\ pc' = [pc EXCEPT ![t] = "idle"]
               /\ frame' = [frame EXCEPT ![t] = <<>>]
               /\ last_call' = [op |-> "get_subgraph", key |-> fr.key,
                                max_depth |-> fr.max_depth,
                                ret |-> subgraph_result(DB, st),
                                enq |-> fr.enq, iterations |-> fr.iterations]
          ELSE /\ frame' = [frame EXCEPT
                              ![t].st = next,
                              ![t].enq = @ \o Enqueued(st.queue, next.queue),
                              ![t].iterations = @ + 1]
               /\ UNCHANGED <<pc, last_call>>
       /\ UNCHANGED <<graph_nodes, graph_edges, sqlite_sequence, files,
                      file_relationships, observed, created>>

WalkStep == FindPathLoop("t1") \/ GetSubgraphLoop("t1")

NextWalk ==
    \/ AddEdge(WalkEdges, {DefaultWeight}, {NoProps},
               MaxWalkNodePk, MaxWalkEdgePk, MaxWalkWeight)
    \/ (Written /\ CallFindPath("t1", WalkKeys, WalkDepths))
    \/ (Written /\ CallGetSubgraph("t1", WalkKeys, WalkDepths))
    \/ FindPathLoop("t1")
    \/ GetSubgraphLoop("t1")

\* The thread that called find_path or get_subgraph keeps running its loop
SpecWalk == Init /\ [][NextWalk]_vars /\ WF_vars(WalkStep)

\* SpecReadOnly: the five queries asked about keys that have a node and keys
\* that have none, between add_node and add_edge calls
NextReadOnly ==
    \/ AddNode({Acme}, Labels, {NoProps}, MaxNbNodePk, MaxNbEdgePk, MaxNbWeight)
    \/ AddEdge({<<File1, Acme, "belongs_to">>, <<Acme, Acme, "related_to">>},
               {DefaultWeight}, {NoProps}, MaxNbNodePk, MaxNbEdgePk, MaxNbWeight)
    \/ (Written /\ GetNodePk(UnknownKeys))
    \/ (Written /\ GetNeighbors(UnknownKeys, {None, "belongs_to"}, Directions))
    \/ (Written /\ FindPath(UnknownKeys, 0..MaxDepth))
    \/ (Written /\ GetSubgraph(UnknownKeys, 0..MaxDepth))
    \/ (Written /\ GetStats)

SpecReadOnly == Init /\ [][NextReadOnly]_vars

\* SpecMeta: add_node called with and without a label and properties, also
\* with an empty properties map, on keys that have a node and keys that have
\* none
MetaLabels == {None, "a.pdf", "b.pdf"}
MetaProps == {NoProps, << <<>> >>, <<[src |-> "user"]>>, <<[src |-> "ai"]>>}

NextMeta ==
    \/ AddNode(SeqKeys, MetaLabels, MetaProps, MaxNbNodePk, MaxNbEdgePk, MaxNbWeight)
    \/ AddEdge({<<File1, Acme, "belongs_to">>}, {DefaultWeight}, {NoProps},
               MaxNbNodePk, MaxNbEdgePk, MaxNbWeight)

SpecMeta == Init /\ [][NextMeta]_vars

-----------------------------------------------------------------------------
(* Properties *)

Pk(k) == get_node_pk(DB, k[1], k[2])

RECURSIVE SumWeights(_)
SumWeights(rows) ==
    IF rows = {} THEN 0
    ELSE LET e == CHOOSE x \in rows : TRUE
         IN e.weight + SumWeights(rows \ {e})

RECURSIVE SumObserved(_)
SumObserved(rs) ==
    IF rs = {} THEN 0
    ELSE LET r == CHOOSE x \in rs : TRUE
         IN observed[r] + SumObserved(rs \ {r})

\* The edge rows that join the current handles of relationship r's two entities
RowsOf(r) ==
    {e \in graph_edges : /\ e.from_node = Pk(r[1])
                         /\ e.to_node = Pk(r[2])
                         /\ e.edge_type = r[3]}

\* C1: a node key that has a handle keeps that handle in every later state, and
\* add_node on a key that has a handle returns that handle.
C1_HandleStability ==
    [][\A k \in Keys :
         Pk(k) # NoPk =>
            /\ Pk(k)' = Pk(k)
            /\ (last_call'.op = "add_node" /\ last_call'.key = k
                   => last_call'.ret = Pk(k))]_vars

\* C2: in every state, also between the statements of interleaved add_node and
\* add_edge calls, at most one node row exists per (node_type, node_id).
C2_NodeKeyUnique ==
    \A r1, r2 \in graph_nodes :
        (r1.node_type = r2.node_type /\ r1.node_id = r2.node_id) => r1 = r2

\* add_node has replaced the row of an existing key while the other caller is
\* in the middle of add_edge
C2_Witness ==
    /\ last_call.op = "add_node"
    /\ last_call.was # NoPk
    /\ Pk(last_call.key) = last_call.ret
    /\ \E t \in Threads : pc[t] \in {"get_to", "select", "write"}

\* C3: after any sequence of add_node / add_edge / build calls run one after the
\* other, at most one edge row exists per (from_node, to_node, edge_type).
C3_EdgeTripleUnique ==
    \A e1, e2 \in graph_edges :
        (/\ e1.from_node = e2.from_node
         /\ e1.to_node = e2.to_node
         /\ e1.edge_type = e2.edge_type) => e1 = e2

\* add_edge has been called again for a relationship whose row it found, next
\* to a row of another type between the same two handles
C3_Witness ==
    /\ last_call.op = "add_edge"
    /\ \E e1, e2 \in graph_edges :
          /\ e1.from_node = e2.from_node
          /\ e1.to_node = e2.to_node
          /\ e1.edge_type # e2.edge_type
          /\ e1.weight > 1
          /\ e1.edge_type = last_call.edge[3]

\* C4: a relationship that add_edge was called for has exactly one edge row of
\* its type between its two entities, whose weight is the sum of the weights
\* given, whatever other add_node / add_edge calls ran in between.
C4_WeightAccumulation ==
    \A r \in DOMAIN observed :
        observed[r] > 0 =>
            /\ Cardinality(RowsOf(r)) = 1
            /\ \A e \in RowsOf(r) : e.weight = observed[r]

\* C5: when callers ran add_edge concurrently and all have returned, no second
\* row exists for a handle triple and no increment is lost: the weights stored
\* add up to the weights given.
C5_AtomicIncrement ==
    Idle => /\ C3_EdgeTripleUnique
            /\ SumWeights(graph_edges) = SumObserved(DOMAIN observed)

\* C6: after build_graph_from_database has run on an empty graph, every active
\* file is found under its project by find_all_project_files and under each of
\* its tags by find_files_by_tag.
TagsOf(f) ==
    IF f.ai_tags = None \/ f.ai_tags = "" THEN {}
    ELSE {strip(split(f.ai_tags)[i]) : i \in 1..Len(split(f.ai_tags))} \ {""}

C6_BuilderMembership ==
    (last_call.op = "build" /\ Builds = 1) =>
        \A f \in {x \in files : x.status = "active"} :
            /\ (f.project # None /\ f.project # "") =>
                  /\ \E i \in DOMAIN get_neighbors(DB, "project", f.project, None, "in") :
                        LET n == get_neighbors(DB, "project", f.project, None, "in")[i]
                        IN n[1] = "file" /\ n[2] = str(f.id) /\ n[4] = "belongs_to"
                  /\ [filename |-> f.filename, path |-> f.path, summary |-> f.ai_summary]
                        \in find_all_project_files(DB, files, f.project)
            /\ \A tag \in TagsOf(f) :
                  /\ \E i \in DOMAIN get_neighbors(DB, "tag", tag, None, "in") :
                        LET n == get_neighbors(DB, "tag", tag, None, "in")[i]
                        IN n[1] = "file" /\ n[2] = str(f.id) /\ n[4] = "tagged_with"
                  /\ [filename |-> f.filename, path |-> f.path]
                        \in find_files_by_tag(DB, files, tag)

\* The handles one stored edge away from handle x, whichever way the edge points
Adjacent(x) ==
    {e.to_node : e \in {r \in graph_edges : r.from_node = x}}
    \cup {e.from_node : e \in {r \in graph_edges : r.to_node = x}}

\* The handles at most n hops from handle x
RECURSIVE Ball(_, _)
Ball(x, n) ==
    IF n <= 0 THEN {x}
    ELSE LET inner == Ball(x, n - 1)
         IN inner \cup UNION {Adjacent(y) : y \in inner}

Reachable(x, y) == y \in Ball(x, sqlite_sequence.graph_nodes)

\* The hop distance of two handles one of which is reachable from the other
HopDistance(x, y) ==
    CHOOSE n \in 0..sqlite_sequence.graph_nodes :
        y \in Ball(x, n) /\ (n = 0 \/ y \notin Ball(x, n - 1))

\* C7: for two distinct existing nodes and max_depth d >= 0, find_path returns
\* a path if and only if their hop distance k over the stored edges, taken as
\* undirected, is at most d, and the path then has exactly k hops; otherwise it
\* returns None.
C7_ShortestPath ==
    (/\ last_call.op = "find_path"
     /\ last_call.max_depth >= 0
     /\ Pk(last_call.from) # NoPk
     /\ Pk(last_call.to) # NoPk
     /\ Pk(last_call.from) # Pk(last_call.to)) =>
        LET a == Pk(last_call.from)
            b == Pk(last_call.to)
        IN IF Reachable(a, b) /\ HopDistance(a, b) <= last_call.max_depth
           THEN /\ last_call.ret # <<>>
                /\ Len(last_call.ret[1]) = HopDistance(a, b)
           ELSE last_call.ret = <<>>

\* find_path has returned a path of three hops, the most it was allowed
C7_Witness ==
    /\ last_call.op = "find_path"
    /\ last_call.max_depth = 3
    /\ last_call.ret # <<>>
    /\ Len(last_call.ret[1]) = 3

\* C8: for two existing nodes a and b and any max_depth, find_path(a, b)
\* returns a path exactly when find_path(b, a) does, and the two paths have the
\* same number of hops.
C8_SymmetricTraversal ==
    (/\ last_call.op = "find_path"
     /\ Pk(last_call.from) # NoPk
     /\ Pk(last_call.to) # NoPk) =>
        LET back == find_path(DB, last_call.to[1], last_call.to[2],
                              last_call.from[1], last_call.from[2],
                              last_call.max_depth)
        IN /\ (last_call.ret = <<>>) <=> (back = <<>>)
           /\ last_call.ret # <<>> => Len(last_call.ret[1]) = Len(back[1])

\* find_path has returned a path whose first hop runs against the direction of
\* the only edge row between its two handles
C8_Witness ==
    /\ last_call.op = "find_path"
    /\ last_call.ret # <<>>
    /\ last_call.ret[1] # <<>>
    /\ LET hop == last_call.ret[1][1]
       IN /\ \E e \in graph_edges : e.from_node = hop[3] /\ e.to_node = hop[1]
          /\ ~\E e \in graph_edges : e.from_node = hop[1] /\ e.to_node = hop[3]

\* C9: find_path from an existing node to itself returns the empty path, not
\* None, for every max_depth, max_depth = 0 included, with or without edges or
\* self-loops at the node.
C9_SameNodePath ==
    (/\ last_call.op = "find_path"
     /\ Pk(last_call.from) # NoPk
     /\ Pk(last_call.from) = Pk(last_call.to)) =>
        last_call.ret = << <<>> >>

\* find_path has been asked with max_depth = 0 for the path from a node that
\* has a self-loop to itself
C9_Witness ==
    /\ last_call.op = "find_path"
    /\ last_call.from = last_call.to
    /\ last_call.max_depth = 0
    /\ last_call.ret = << <<>> >>
    /\ \E e \in graph_edges : /\ e.from_node = Pk(last_call.from)
                              /\ e.to_node = Pk(last_call.from)

\* C10: for an existing start node and max_depth d >= 1, the nodes get_subgraph
\* returns are exactly the existing nodes whose hop distance from the start,
\* over the stored edges taken as undirected, is at most d.
C10_SubgraphNodes ==
    (/\ last_call.op = "get_subgraph"
     /\ last_call.max_depth >= 1
     /\ Pk(last_call.key) # NoPk) =>
        /\ last_call.ret.raised = None
        /\ {last_call.ret.nodes[i].pk : i \in DOMAIN last_call.ret.nodes}
              = {n.id : n \in {r \in graph_nodes :
                                  r.id \in Ball(Pk(last_call.key), last_call.max_depth)}}

\* get_subgraph with max_depth = 1 has returned the start node and a neighbor,
\* and left out an existing node two hops away
C10_Witness ==
    /\ last_call.op = "get_subgraph"
    /\ last_call.max_depth = 1
    /\ Len(last_call.ret.nodes) >= 2
    /\ \E n \in graph_nodes :
          /\ n.id \in Ball(Pk(last_call.key), 2)
          /\ \A i \in DOMAIN last_call.ret.nodes : last_call.ret.nodes[i].pk # n.id

\* C11: for an existing start node, get_subgraph with max_depth = 0 returns
\* normally, with exactly the start node in nodes and an empty edges list.
C11_SubgraphDepthZero ==
    (/\ last_call.op = "get_subgraph"
     /\ last_call.max_depth = 0
     /\ Pk(last_call.key) # NoPk) =>
        /\ last_call.ret.raised = None
        /\ {last_call.ret.nodes[i].pk : i \in DOMAIN last_call.ret.nodes}
              = {Pk(last_call.key)}
        /\ last_call.ret.edges = <<>>

\* The handles of the nodes the last get_subgraph returned
ReturnedPks == {last_call.ret.nodes[i].pk : i \in DOMAIN last_call.ret.nodes}

\* An edge row as get_subgraph lists it
Listed(e) == [from |-> e.from_node, to |-> e.to_node,
              type |-> e.edge_type, weight |-> e.weight]

\* C12: for an existing start node and any max_depth, every stored edge whose
\* two endpoints both are among the returned nodes is in the returned edges
\* list, edges between nodes at the depth boundary included.
C12_SubgraphEdgeComplete ==
    (/\ last_call.op = "get_subgraph"
     /\ Pk(last_call.key) # NoPk
     /\ last_call.ret.raised = None) =>
        \A e \in graph_edges :
            (e.from_node \in ReturnedPks /\ e.to_node \in ReturnedPks) =>
                \E i \in DOMAIN last_call.ret.edges : last_call.ret.edges[i] = Listed(e)

\* C13: in every get_subgraph result, after any sequence of add_node and
\* add_edge calls, the from and the to handle of every returned edge is the pk
\* of a returned node.
C13_SubgraphSelfContained ==
    (/\ last_call.op = "get_subgraph"
     /\ last_call.ret.raised = None) =>
        \A i \in DOMAIN last_call.ret.edges :
            /\ last_call.ret.edges[i].from \in ReturnedPks
            /\ last_call.ret.edges[i].to \in ReturnedPks

\* The stored edges that leave (come into) handle pk, of type edge_type if given
StoredFrom(pk, edge_type) ==
    {e \in graph_edges : e.from_node = pk /\ (edge_type = None \/ e.edge_type = edge_type)}

StoredTo(pk, edge_type) ==
    {e \in graph_edges : e.to_node = pk /\ (edge_type = None \/ e.edge_type = edge_type)}

\* The last get_neighbors result has a tuple for edge e, with the key and the
\* current label of the node that has handle far_pk
HasTuple(e, far_pk) ==
    \E n \in graph_nodes :
        /\ n.id = far_pk
        /\ \E i \in DOMAIN last_call.ret :
              last_call.ret[i] = <<n.node_type, n.node_id, n.label, e.edge_type, e.weight>>

\* C14: for an existing node, after any sequence of add_node and add_edge
\* calls, get_neighbors returns one tuple per stored edge that leaves the node
\* ('out'), that comes into it ('in'), or both, of the given type if one is
\* given; the tuple has the other endpoint's key and current label, the edge
\* type and the accumulated weight.
C14_NeighborEnumeration ==
    (/\ last_call.op = "get_neighbors"
     /\ Pk(last_call.key) # NoPk) =>
        LET pk == Pk(last_call.key)
            outs == IF last_call.direction \in {"out", "both"}
                    THEN StoredFrom(pk, last_call.edge_type) ELSE {}
            ins == IF last_call.direction \in {"in", "both"}
                   THEN StoredTo(pk, last_call.edge_type) ELSE {}
        IN /\ Len(last_call.ret) = Cardinality(outs) + Cardinality(ins)
           /\ \A e \in outs : HasTuple(e, e.to_node)
           /\ \A e \in ins : HasTuple(e, e.from_node)

\* A key with an empty or null node_type or node_id
BadKey(k) == k[1] \in {None, ""} \/ k[2] \in {None, ""}

\* C16: add_node called with an empty or null node_type or node_id, and
\* add_edge called with such a key for either endpoint, ends with an error and
\* leaves the node and edge tables as they were.
C16_IdentityValidation ==
    [][(\/ last_call'.op = "add_node" /\ BadKey(last_call'.key)
        \/ last_call'.op = "add_edge" /\ (\/ BadKey(last_call'.edge[1])
                                          \/ BadKey(last_call'.edge[2])))
          => /\ last_call'.raised # None
             /\ graph_nodes' = graph_nodes
             /\ graph_edges' = graph_edges]_vars

\* C15: asked about a key that has no node, get_neighbors returns [] for every
\* direction and filter, find_path returns None when either endpoint has no
\* node, and get_subgraph returns empty nodes and edges; none of them raises
\* and none creates a node.
C15_UnknownNodeQueries ==
    [][/\ (last_call'.op = "get_neighbors" /\ Pk(last_call'.key) = NoPk) =>
              /\ last_call'.ret = <<>>
              /\ graph_nodes' = graph_nodes
       /\ (last_call'.op = "find_path"
             /\ (Pk(last_call'.from) = NoPk \/ Pk(last_call'.to) = NoPk)) =>
              /\ last_call'.ret = <<>>
              /\ graph_nodes' = graph_nodes
       /\ (last_call'.op = "get_subgraph" /\ Pk(last_call'.key) = NoPk) =>
              /\ last_call'.ret = [raised |-> None, nodes |-> <<>>, edges |-> <<>>]
              /\ graph_nodes' = graph_nodes]_vars

\* get_subgraph with max_depth = 0 has been asked about a key without a node,
\* in a graph that has nodes and edges, and has returned
C15_Witness ==
    /\ last_call.op = "get_subgraph"
    /\ last_call.max_depth = 0
    /\ Pk(last_call.key) = NoPk
    /\ last_call.ret.raised = None
    /\ graph_nodes # {}
    /\ graph_edges # {}

\* The key/value pairs of a stored properties text
StoredItems(text) ==
    CASE text = None -> {}
      [] text = "{\"src\": \"ai\"}" -> {<<"src", "ai">>}
      [] text = "{\"src\": \"user\"}" -> {<<"src", "user">>}
      [] text = "{\"pin\": \"yes\"}" -> {<<"pin", "yes">>}
      [] text = "{\"src\": \"ai\", \"pin\": \"yes\"}" -> {<<"src", "ai">>, <<"pin", "yes">>}

\* The key/value pairs of a properties argument
GivenItems(properties) ==
    IF properties = NoProps THEN {}
    ELSE {<<k, properties[1][k]>> : k \in DOMAIN properties[1]}

\* The old pairs merged with the new ones: new keys overwrite
Merged(old, new) == new \cup {p \in old : \A q \in new : q[1] # p[1]}

\* C17: when add_edge finds the edge row of its (from, to, edge_type), the
\* stored properties become the old map merged with the given one: given keys
\* overwrite, the other keys keep their values, and a call without properties
\* leaves the stored properties as they were.
C17_EdgePropertyMerge ==
    [][(last_call'.op = "add_edge" /\ last_call'.raised = None) =>
          \A old \in {r \in graph_edges : /\ r.from_node = Pk(last_call'.edge[1])
                                          /\ r.to_node = Pk(last_call'.edge[2])
                                          /\ r.edge_type = last_call'.edge[3]} :
              \E new \in graph_edges' :
                  /\ new.id = old.id
                  /\ StoredItems(new.properties)
                        = Merged(StoredItems(old.properties),
                                 GivenItems(last_call'.properties))]_vars

\* C18: when add_edge returns, both endpoint keys have a node and an edge of
\* the given type joins the from node's handle to the to node's handle, also
\* when both endpoints are the same new node; an endpoint that had a node keeps
\* its handle, label and properties.
C18_AutoVivification ==
    [][(last_call'.op = "add_edge" /\ last_call'.raised = None) =>
          LET f == last_call'.edge[1]
              t == last_call'.edge[2]
              from_pk == get_node_pk(DB', f[1], f[2])
              to_pk == get_node_pk(DB', t[1], t[2])
          IN /\ from_pk # NoPk
             /\ to_pk # NoPk
             /\ \E e \in graph_edges' : /\ e.from_node = from_pk
                                        /\ e.to_node = to_pk
                                        /\ e.edge_type = last_call'.edge[3]
             /\ \A n \in graph_nodes :
                   (<<n.node_type, n.node_id>> \in {f, t}) => n \in graph_nodes']_vars

\* add_edge has returned with a from node that has the newest handle and no
\* label, and a to node that carries the label and the properties add_node
\* gave it
C18_Witness ==
    /\ last_call.op = "add_edge"
    /\ \E n \in graph_nodes : /\ <<n.node_type, n.node_id>> = last_call.edge[1]
                              /\ n.id = sqlite_sequence.graph_nodes
                              /\ n.label = None
    /\ \E n \in graph_nodes : /\ <<n.node_type, n.node_id>> = last_call.edge[2]
                              /\ n.label # None
                              /\ n.properties # None

\* C19: after any sequence of add_node and add_edge calls, get_stats gives as
\* total_nodes the number of distinct keys a node was created for, and as
\* total_edges the number of distinct (from key, to key, edge_type)
\* relationships add_edge was called for.
C19_StatsConsistency ==
    last_call.op = "get_stats" =>
        /\ last_call.ret.total_nodes = Cardinality(created)
        /\ last_call.ret.total_edges = Cardinality(DOMAIN observed)

\* C20: a second call of build_graph_from_database on unchanged file data
\* leaves every edge stored by the first call with twice its weight.
C20_RebuildDoubles ==
    [][(Builds = 1 /\ Builds' = 2) =>
          \A e \in graph_edges :
              \E e2 \in graph_edges' :
                  /\ e2.id = e.id
                  /\ e2.from_node = e.from_node
                  /\ e2.to_node = e.to_node
                  /\ e2.edge_type = e.edge_type
                  /\ e2.weight = 2 * e.weight]_vars

RECURSIVE SumStrength(_)
SumStrength(rows) ==
    IF rows = {} THEN 0
    ELSE LET r == CHOOSE x \in rows : TRUE
         IN r.strength + SumStrength(rows \ {r})

\* The file_relationships rows of the pair (file1_id, file2_id) = (a, b)
PairRows(a, b) == {r \in file_relationships : r.file1_id = a /\ r.file2_id = b}

\* The places of file b in the related_to out-neighbors of file a
RelatedOut(a, b) ==
    LET nb == get_neighbors(DB, "file", str(a), "related_to", "out")
    IN {i \in DOMAIN nb : nb[i][1] = "file" /\ nb[i][2] = str(b)}

\* C21: after build_graph_from_database has run on an empty graph, for every
\* (file1_id, file2_id) pair of file_relationships, file2 is an out-neighbor of
\* file1 through exactly one related_to edge, and the weight of that edge is
\* the sum of the strengths of the pair's rows, active files or not.
C21_BuilderRelated ==
    (last_call.op = "build" /\ Builds = 1) =>
        \A a \in FileIds, b \in FileIds :
            PairRows(a, b) # {} =>
                /\ Cardinality(RelatedOut(a, b)) = 1
                /\ \A i \in RelatedOut(a, b) :
                      get_neighbors(DB, "file", str(a), "related_to", "out")[i][5]
                          = SumStrength(PairRows(a, b))
                /\ Cardinality(RowsOf(<<<<"file", str(a)>>, <<"file", str(b)>>,
                                        "related_to">>)) = 1

C21_Witness ==
    /\ last_call.op = "build"
    /\ Builds = 1
    /\ Cardinality(PairRows(1, 2)) = 2
    /\ \E f \in files : f.id = 2 /\ f.status = "archived"
    /\ \E f \in files : f.id = 1 /\ f.status = "active"
    /\ \E i \in RelatedOut(1, 2) :
          get_neighbors(DB, "file", "1", "related_to", "out")[i][5] = 3

\* C22: an add_edge call that ends with a storage error leaves the committed
\* node and edge tables as they were before the call; no endpoint node has
\* been created without the edge.
C22_NoPartialState ==
    [][(last_call'.op = "add_edge" /\ last_call'.raised # None)
          => /\ graph_nodes' = graph_nodes
             /\ graph_edges' = graph_edges]_vars

Walking(t) == pc[t] \in {"find_path", "get_subgraph"}

Distinct(s) == \A i \in DOMAIN s, j \in DOMAIN s : s[i] = s[j] => i = j

\* The visited set of the traversal that thread t is running
VisitedOf(t) ==
    IF pc[t] = "find_path" THEN frame[t].st.visited ELSE frame[t].st.visited_nodes

\* The result of a traversal run loop by loop is the one the call returns
WalkAgrees ==
    /\ last_call.op = "find_path" =>
          last_call.ret = find_path(DB, last_call.from[1], last_call.from[2],
                                    last_call.to[1], last_call.to[2],
                                    last_call.max_depth)
    /\ last_call.op = "get_subgraph" =>
          last_call.ret = get_subgraph(DB, last_call.key[1], last_call.key[2],
                                       last_call.max_depth)

\* C23: find_path and get_subgraph return on every graph, with cycles,
\* self-loops, antiparallel edges and several edge types between a pair: a
\* handle that enters the queue is in the visited set and enters the queue
\* once, and a call that has started its loop comes back.
C23_TraversalTermination ==
    /\ [](\A t \in Threads :
             Walking(t) =>
                /\ Distinct(frame[t].enq)
                /\ {frame[t].enq[i] : i \in DOMAIN frame[t].enq} \subseteq VisitedOf(t)
                /\ \A i \in DOMAIN frame[t].st.queue :
                      \E j \in DOMAIN frame[t].enq :
                          frame[t].enq[j] = frame[t].st.queue[i].pk)
    /\ \A t \in Threads : Walking(t) ~> (pc[t] = "idle")

C23_Witness ==
    /\ last_call.op = "get_subgraph"
    /\ "iterations" \in DOMAIN last_call
    /\ last_call.iterations >= 2
    /\ Len(last_call.enq) >= 2
    /\ \E e \in graph_edges : e.from_node = e.to_node
    /\ \E e1 \in graph_edges, e2 \in graph_edges :
          /\ e1.from_node = e2.to_node /\ e1.to_node = e2.from_node
          /\ e1.from_node # e1.to_node

Queries == {"get_node_pk", "get_neighbors", "find_path", "get_subgraph", "get_stats"}

\* C24: get_node_pk, get_neighbors, find_path, get_subgraph and get_stats leave
\* the node table and the edge table as they are, whether or not the node they
\* are asked about exists: no row is added, removed or altered.
C24_QueriesReadOnly ==
    [][last_call'.op \in Queries =>
          /\ graph_nodes' = graph_nodes
          /\ graph_edges' = graph_edges
          /\ sqlite_sequence' = sqlite_sequence]_vars

C24_Witness ==
    /\ last_call.op = "get_subgraph"
    /\ Pk(last_call.key) # NoPk
    /\ last_call.ret.raised = None
    /\ Len(last_call.ret.edges) >= 2
    /\ Pk(Tax) = NoPk

\* C25: over add_node, add_edge and build_graph_from_database calls, a node key
\* that has a row has one in every later state, an edge row stays with its
\* from handle, to handle and edge type, and total_nodes and total_edges of
\* get_stats never decrease.
C25_NothingDeleted ==
    [][/\ \A n \in graph_nodes :
             \E n2 \in graph_nodes' :
                 n2.node_type = n.node_type /\ n2.node_id = n.node_id
       /\ \A e \in graph_edges :
             \E e2 \in graph_edges' :
                 /\ e2.id = e.id
                 /\ e2.from_node = e.from_node
                 /\ e2.to_node = e.to_node
                 /\ e2.edge_type = e.edge_type
       /\ get_stats(DB').total_nodes >= get_stats(DB).total_nodes
       /\ get_stats(DB').total_edges >= get_stats(DB).total_edges]_vars

C25_Witness ==
    /\ last_call.op = "add_node"
    /\ last_call.was # NoPk
    /\ last_call.ret # last_call.was
    /\ \E e \in graph_edges : e.weight >= 2
    /\ get_stats(DB).total_nodes = 2

\* C26: in every state reached by add_node, add_edge and
\* build_graph_from_database calls, the from_node and the to_node of every edge
\* row are handles of node rows of that state.
C26_ReferentialIntegrity ==
    \A e \in graph_edges :
        /\ \E n \in graph_nodes : n.id = e.from_node
        /\ \E n \in graph_nodes : n.id = e.to_node

\* The node rows of the next state that carry a newly issued handle: no row of
\* the current state has that handle for that key
IssuedRows ==
    {n2 \in graph_nodes' :
        ~\E n \in graph_nodes : /\ n.id = n2.id
                                /\ n.node_type = n2.node_type
                                /\ n.node_id = n2.node_id}

\* C27: over add_node and add_edge calls no handle is issued twice.  Every
\* handle in the table is at most the recorded sequence value, that value never
\* goes down, and every handle issued is above it: a handle that was ever
\* issued for one key is never issued again, for that key or another, and an
\* edge row cannot come to point at the node of another entity.
C27_HandlesNeverReused ==
    /\ [](\A n \in graph_nodes : n.id <= sqlite_sequence.graph_nodes)
    /\ [][/\ sqlite_sequence'.graph_nodes >= sqlite_sequence.graph_nodes
          /\ \A n2 \in IssuedRows : n2.id > sqlite_sequence.graph_nodes]_vars

C27_Witness ==
    /\ last_call.op = "add_node"
    /\ last_call.was # NoPk
    /\ last_call.ret > last_call.was
    /\ Cardinality(graph_nodes) = 2
    /\ \E e \in graph_edges : ~\E n \in graph_nodes : n.id = e.to_node
    /\ sqlite_sequence.graph_nodes = MaxNodePk

\* The handles a path of hops goes through, in order
HandlesOn(path) ==
    [i \in 1..(Len(path) + 1) |-> IF i = 1 THEN path[1][1] ELSE path[i - 1][3]]

\* C28: a find_path result that is a non-empty list of hops (a, edge_type, b)
\* starts at the from node's handle and ends at the to node's handle, each hop
\* starts where the one before ends, no handle comes twice, every hop is a
\* stored edge of that type between a and b in one of the two directions, and
\* every handle on the path is the handle of an existing node.
C28_PathWellFormed ==
    (/\ last_call.op = "find_path"
     /\ last_call.ret # <<>>
     /\ last_call.ret[1] # <<>>) =>
        LET path == last_call.ret[1]
        IN /\ path[1][1] = Pk(last_call.from)
           /\ path[Len(path)][3] = Pk(last_call.to)
           /\ \A i \in 1..(Len(path) - 1) : path[i][3] = path[i + 1][1]
           /\ Distinct(HandlesOn(path))
           /\ \A i \in 1..Len(path) :
                 \E e \in graph_edges :
                     /\ e.edge_type = path[i][2]
                     /\ \/ (e.from_node = path[i][1] /\ e.to_node = path[i][3])
                        \/ (e.from_node = path[i][3] /\ e.to_node = path[i][1])
           /\ \A i \in 1..(Len(path) + 1) :
                 \E n \in graph_nodes : n.id = HandlesOn(path)[i]

\* C29: for every start node and every max_depth, the edges list that
\* get_subgraph returns has each stored edge row at most once.
C29_SubgraphEdgesOnce ==
    (last_call.op = "get_subgraph" /\ last_call.ret.raised = None) =>
        \A e \in graph_edges :
            Cardinality({i \in DOMAIN last_call.ret.edges :
                            /\ last_call.ret.edges[i].from = e.from_node
                            /\ last_call.ret.edges[i].to = e.to_node
                            /\ last_call.ret.edges[i].type = e.edge_type}) <= 1

\* The node rows of key k in a node table
NodeRows(nodes, k) == {n \in nodes : n.node_type = k[1] /\ n.node_id = k[2]}

\* C30: when add_node(t, i, label, properties) returns, node (t, i) has one
\* row, with the label and the properties of the call: a label or properties
\* left out are stored as null, whatever was stored before; the label and the
\* properties of every other node are as they were.
C30_NodeLastWriteWins ==
    [][(last_call'.op = "add_node" /\ last_call'.raised = None) =>
          /\ Cardinality(NodeRows(graph_nodes', last_call'.key)) = 1
          /\ \A n \in NodeRows(graph_nodes', last_call'.key) :
                /\ n.label = last_call'.label
                /\ StoredItems(n.properties) = GivenItems(last_call'.properties)
                /\ (last_call'.properties = NoProps => n.properties = None)
          /\ \A m \in graph_nodes \ NodeRows(graph_nodes, last_call'.key) :
                \E m2 \in graph_nodes' :
                    /\ m2.node_type = m.node_type
                    /\ m2.node_id = m.node_id
                    /\ m2.label = m.label
                    /\ m2.properties = m.properties]_vars

C30_Witness ==
    /\ last_call.op = "add_node"
    /\ last_call.was # NoPk
    /\ last_call.label = None
    /\ last_call.properties = NoProps
    /\ \A n \in NodeRows(graph_nodes, last_call.key) :
          n.label = None /\ n.properties = None
    /\ \E m \in graph_nodes :
          m.label = "b.pdf" /\ m.properties = "{\"src\": \"user\"}"

====
